---- MODULE Spec2Model ----
(***************************************************************************)
(* A model of seismic_data.py: main() reads a directory of miniSEED files, *)
(* normalizes every trace, loads one row per sample into the SQLite table  *)
(* seismic_data, then draws the helicorder chart and the station map.      *)
(*                                                                         *)
(* Text is modelled as sequences of character codes (65 = "A", 46 = ".",   *)
(* 48..57 = "0".."9"), so that Python's sorted() over file names and       *)
(* SQLite's comparison of TEXT values are the byte-wise comparisons they   *)
(* are.  Instants are whole epoch seconds.                                 *)
(***************************************************************************)
EXTENDS Integers, Sequences, FiniteSets

\* ------------------------------------------------------------------ bounds

\* Longest directory listing considered.
MaxFiles == 2

\* Most samples in one trace.
MaxSamples == 2

\* How many times main() is run against the same directory and database.
MaxRuns == 2

\* Rows of an open transaction that SQLite's page cache holds before it
\* starts writing dirty pages to the database file.
CacheRows == 1

\* ------------------------------------------------------------- text helpers

\* Byte-wise comparison of two texts: Python's str ordering on ASCII names,
\* and SQLite's BINARY collation on TEXT values.
TextLess(a, b) ==
    \E k \in 1..(Len(b)) :
        /\ \A m \in 1..(k - 1) : m <= Len(a) /\ a[m] = b[m]
        /\ \/ k = Len(a) + 1
           \/ k <= Len(a) /\ a[k] < b[k]

RECURSIVE Digits(_)
Digits(n) ==
    IF n < 10 THEN <<48 + n>> ELSE Append(Digits(n \div 10), 48 + (n % 10))

\* The text SQLite gives a whole-valued REAL: its digits and ".0".
RealToText(n) == Digits(n) \o <<46, 48>>

RECURSIVE DigitsValue(_)
DigitsValue(s) ==
    IF s = <<>> THEN 0
    ELSE 10 * DigitsValue(SubSeq(s, 1, Len(s) - 1)) + (s[Len(s)] - 48)

\* The instant a stored timestamp text denotes (the digits before the ".").
TextToReal(t) ==
    LET dot == CHOOSE k \in 1..Len(t) : t[k] = 46
    IN  DigitsValue(SubSeq(t, 1, dot - 1))

\* ------------------------------------------------------- the input directory

\* File-name stems "A", "AB", "B" and the two suffixes ".mseed" and ".txt".
Stems == {<<65>>, <<65, 66>>, <<66>>}
MseedSuffix == <<46, 109, 115, 101, 101, 100>>
OtherSuffix == <<46, 116, 120, 116>>

\* The stems given to entries the reader passes over.
PassedOverStems == {<<65>>}

\* A directory entry: a readable recording of npts samples per trace, a
\* corrupt recording, a sub-directory named like a recording, or another file.
DirEntries ==
    {[stem |-> s, suffix |-> MseedSuffix, is_file |-> TRUE, decodes |-> TRUE, npts |-> n] :
        s \in Stems, n \in 1..MaxSamples}
    \cup {[stem |-> s, suffix |-> MseedSuffix, is_file |-> TRUE, decodes |-> FALSE, npts |-> 0] :
        s \in Stems}
    \cup {[stem |-> s, suffix |-> MseedSuffix, is_file |-> FALSE, decodes |-> FALSE, npts |-> 0] :
        s \in PassedOverStems}
    \cup {[stem |-> s, suffix |-> OtherSuffix, is_file |-> TRUE, decodes |-> FALSE, npts |-> 0] :
        s \in PassedOverStems}

\* file_path.name
FileName(entry) == entry.stem \o entry.suffix

\* Every listing the file system can enumerate: up to MaxFiles entries with
\* distinct names, in any order.
Directories ==
    UNION {{d \in [1..n -> DirEntries] :
               \A i, j \in 1..n : i # j => FileName(d[i]) # FileName(d[j])} :
           n \in 0..MaxFiles}

\* The condition of line 26.
Recognized(entry) == entry.is_file /\ entry.suffix = MseedSuffix

\* What each recording holds: "A" two channels of station S1 starting at
\* second 8, "AB" one channel of S1 and "B" one channel of S2 starting at 9.
StationOf(stem) == IF stem = <<66>> THEN "S2" ELSE "S1"
StartOf(stem) == IF stem = <<65>> THEN 8 ELSE 9
ChannelsOf(stem) == IF stem = <<65>> THEN <<"HHZ", "HHN">> ELSE <<"HHZ">>

\* obspy.read of a readable recording: one Trace per channel, channel j
\* sampled every j seconds, the raw sample at index i being 10*j + i.
Decode(entry) ==
    [j \in 1..Len(ChannelsOf(entry.stem)) |->
        [stats |-> [network |-> "XX",
                    station |-> StationOf(entry.stem),
                    location |-> "00",
                    channel |-> ChannelsOf(entry.stem)[j],
                    starttime |-> StartOf(entry.stem),
                    delta |-> j,
                    npts |-> entry.npts],
         data |-> [i \in 1..entry.npts |-> [raw |-> 10 * j + i, ops |-> <<>>]]]]

\* ------------------------------------------------------------ normalization

\* Stream.detrend / Stream.taper rewrite the amplitudes of every trace in
\* place; an amplitude is kept as its raw value and the operations applied.
Apply(op, stream) ==
    [j \in 1..Len(stream) |->
        [stream[j] EXCEPT !.data =
            [i \in 1..Len(@) |-> [@[i] EXCEPT !.ops = Append(@, op)]]]]

Detrend(stream) == Apply("detrend", stream)
Taper(stream) == Apply("taper", stream)

NormalizeTaperFirst(stream) == Detrend(Taper(stream))
Normalize(stream) == Taper(Detrend(stream))

\* ------------------------------------------------------------------ sorted()

RECURSIVE InsertSorted(_, _)
InsertSorted(name, s) ==
    IF s = <<>> THEN <<name>>
    ELSE IF TextLess(name, s[1]) THEN <<name>> \o s
    ELSE <<s[1]>> \o InsertSorted(name, Tail(s))

RECURSIVE SortNames(_)
SortNames(names) ==
    IF names = <<>> THEN <<>>
    ELSE InsertSorted(names[Len(names)], SortNames(SubSeq(names, 1, Len(names) - 1)))

\* The keys of the dict streams, in insertion order.
Keys(strs) == [k \in 1..Len(strs) |-> strs[k].name]

Unsorted(strs) == Keys(strs)
\* sorted(streams.keys())
Sorted(strs) == SortNames(Keys(strs))

\* streams[stream_name]
StreamOf(strs, name) == strs[CHOOSE k \in 1..Len(strs) : strs[k].name = name].stream

\* ---------------------------------------------------------------- the state

VARIABLES
    dir,           \* the directory listing, in the order iterdir() yields it
    pc,            \* where main() is
    pos,           \* read_seismic_data: index of the next entry of dir
    streams,       \* the dict streams, as [name, stream] in insertion order
    tableExists,   \* the database file holds the table seismic_data
    db,            \* the rows the database file holds
    txn,           \* the rows of the connection's open transaction
    journal_mode,  \* the connection's journal mode
    si,            \* insert loop: index into sorted(streams.keys())
    ti,            \* insert loop: index of the trace within the stream
    log,           \* the "Inserted stream ... trace ..." lines logged
    panels,        \* helicorder: the traces plotted on each axes
    chartSaved,    \* helicorder: savefig was reached
    looked,        \* map: the stations client.get_stations was called for
    station_info,  \* map: the stations whose lookup gave a location
    markers,       \* map: the marker plotted for each station
    mapSaved,      \* map: savefig was reached
    failure,       \* the exception that ended the run, or "none"
    run,           \* how many times main() was started
    aborted,       \* how many runs ended inside the bulk load
    dbAtStart      \* the rows the database held when this run started

vars == <<dir, pc, pos, streams, tableExists, db, txn, journal_mode, si, ti, log,
          panels, chartSaved, looked, station_info, markers, mapSaved, failure,
          run, aborted, dbAtStart>>

readVars == <<pos, streams>>
dbVars == <<tableExists, db, txn, journal_mode, si, ti, log>>
plotVars == <<panels, chartSaved, looked, station_info, markers, mapSaved>>

Init ==
    /\ dir \in Directories
    /\ pc = "read"
    /\ pos = 1
    /\ streams = <<>>
    /\ tableExists = FALSE
    /\ db = <<>>
    /\ txn = <<>>
    /\ journal_mode = "DELETE"
    /\ si = 1
    /\ ti = 1
    /\ log = <<>>
    /\ panels = <<>>
    /\ chartSaved = FALSE
    /\ looked = {}
    /\ station_info = {}
    /\ markers = <<>>
    /\ mapSaved = FALSE
    /\ failure = "none"
    /\ run = 1
    /\ aborted = 0
    /\ dbAtStart = <<>>

\* ------------------------------------------------------- read_seismic_data

\* One pass of the loop body over a directory entry: an entry that is not a
\* recognized recording is passed over; obspy.read raising on a corrupt one is
\* not caught; a readable one is normalized and stored under its file name.
ReadOutcomeSkipping(entry, strs) ==
    IF Recognized(entry) /\ entry.decodes
    THEN [raised |-> FALSE,
          streams |-> Append(strs, [name |-> FileName(entry),
                                    stream |-> Normalize(Decode(entry))])]
    ELSE [raised |-> FALSE, streams |-> strs]
ReadOutcome(entry, strs) ==
    IF ~Recognized(entry) THEN [raised |-> FALSE, streams |-> strs]
    ELSE IF ~entry.decodes THEN [raised |-> TRUE, streams |-> strs]
    ELSE [raised |-> FALSE,
          streams |-> Append(strs, [name |-> FileName(entry),
                                    stream |-> Normalize(Decode(entry))])]

read_file ==
    /\ pc = "read"
    /\ pos <= Len(dir)
    /\ LET out == ReadOutcome(dir[pos], streams)
       IN  /\ streams' = out.streams
           /\ pc' = IF out.raised THEN "raised" ELSE "read"
           /\ failure' = IF out.raised THEN "decode" ELSE failure
           /\ pos' = IF out.raised THEN pos ELSE pos + 1
    /\ UNCHANGED <<dir, dbVars, plotVars, run, aborted, dbAtStart>>

\* return streams, and main() goes on to insert_seismic_data_into_db.
read_return ==
    /\ pc = "read"
    /\ pos > Len(dir)
    /\ pc' = "create_table"
    /\ UNCHANGED <<dir, readVars, dbVars, plotVars, failure, run, aborted, dbAtStart>>

\* ------------------------------------------------- insert_seismic_data_into_db

\* The column types of CREATE TABLE seismic_data.
Schema ==
    [id |-> "INTEGER", network |-> "TEXT", station |-> "TEXT", location |-> "TEXT",
     channel |-> "TEXT", timestamp |-> "TEXT", amplitude |-> "REAL"]

\* CREATE TABLE IF NOT EXISTS: the rows of an existing table are kept.
CreateTableDropping(rows) == <<>>
CreateTable(rows) == rows

\* trace.times('timestamp'): the epoch second of every sample.
Times(trace) ==
    [i \in 1..trace.stats.npts |-> trace.stats.starttime + (i - 1) * trace.stats.delta]

\* The timestamp as the column keeps it: SQLite converts a number bound to a
\* column of TEXT affinity into its text.
StoredTimestamp(t) == IF Schema.timestamp = "TEXT" THEN RealToText(t) ELSE t

\* sql_data of one trace, with the rowids INTEGER PRIMARY KEY assigns after
\* the `last` rows there are.
SqlDataShort(trace, last) ==
    [i \in 1..(Len(trace.data) - 1) |->
        [id |-> last + i,
         network |-> trace.stats.network,
         station |-> trace.stats.station,
         location |-> trace.stats.location,
         channel |-> trace.stats.channel,
         timestamp |-> StoredTimestamp(Times(trace)[i]),
         amplitude |-> trace.data[i]]]
SqlData(trace, last) ==
    [i \in 1..Len(trace.data) |->
        [id |-> last + i,
         network |-> trace.stats.network,
         station |-> trace.stats.station,
         location |-> trace.stats.location,
         channel |-> trace.stats.channel,
         timestamp |-> StoredTimestamp(Times(trace)[i]),
         amplitude |-> trace.data[i]]]

\* How many rows of an open transaction have reached the database file.
Spilled(rows) == IF Len(rows) > CacheRows THEN Len(rows) - CacheRows ELSE 0

\* What a killed process leaves of its open transaction in the database file.
\* With the rollback journal on disk the next open rolls everything back; with
\* it in memory (PRAGMA journal_mode = MEMORY) it is lost with the process, and
\* any part of what was already written to the file may stay.
CrashLeaves(mode, rows) ==
    IF mode = "MEMORY" THEN {SubSeq(rows, 1, k) : k \in 0..Spilled(rows)}
    ELSE {<<>>}

\* sqlite3.connect and CREATE TABLE IF NOT EXISTS.
create_table ==
    /\ pc = "create_table"
    /\ tableExists' = TRUE
    /\ db' = CreateTable(db)
    /\ pc' = "pragmas"
    /\ UNCHANGED <<dir, readVars, txn, journal_mode, si, ti, log, plotVars,
                   failure, run, aborted, dbAtStart>>

\* PRAGMA synchronous = OFF; PRAGMA journal_mode = MEMORY.
set_pragmas ==
    /\ pc = "pragmas"
    /\ journal_mode' = "MEMORY"
    /\ si' = 1
    /\ ti' = 1
    /\ pc' = "load"
    /\ UNCHANGED <<dir, readVars, tableExists, db, txn, log, plotVars,
                   failure, run, aborted, dbAtStart>>

\* cursor.executemany for the trace the two loops are at: its rows enter the
\* transaction the first INSERT opens.
executemany ==
    /\ pc = "load"
    /\ si <= Len(streams)
    /\ LET stream_name == Sorted(streams)[si]
           trace == StreamOf(streams, stream_name)[ti]
       IN  txn' = SqlData(trace, Len(db))
    /\ pc' = "commit"
    /\ UNCHANGED <<dir, readVars, tableExists, db, journal_mode, si, ti, log,
                   plotVars, failure, run, aborted, dbAtStart>>

\* conn.commit(), the log line, and the step of the loops.
commit ==
    /\ pc = "commit"
    /\ db' = db \o txn
    /\ txn' = <<>>
    /\ LET stream_name == Sorted(streams)[si]
       IN  /\ log' = Append(log, [stream |-> stream_name, trace |-> ti])
           /\ IF ti < Len(StreamOf(streams, stream_name))
              THEN si' = si /\ ti' = ti + 1
              ELSE si' = si + 1 /\ ti' = 1
    /\ pc' = "load"
    /\ UNCHANGED <<dir, readVars, tableExists, journal_mode, plotVars,
                   failure, run, aborted, dbAtStart>>

\* The check query and conn.close(); main() goes on to create_helicorder.
check_and_close ==
    /\ pc = "load"
    /\ si > Len(streams)
    /\ journal_mode' = "DELETE"
    /\ pc' = "helicorder"
    /\ UNCHANGED <<dir, readVars, tableExists, db, txn, si, ti, log, plotVars,
                   failure, run, aborted, dbAtStart>>

\* The store refuses a write (disk full, permission): the exception leaves
\* the function, and the open transaction is rolled back when the connection
\* goes away.
storage_error ==
    /\ pc \in {"load", "commit"}
    /\ si <= Len(streams)
    /\ txn' = <<>>
    /\ journal_mode' = "DELETE"
    /\ failure' = "storage"
    /\ aborted' = aborted + 1
    /\ pc' = "raised"
    /\ UNCHANGED <<dir, readVars, tableExists, db, si, ti, log, plotVars, run, dbAtStart>>

\* The process is killed during the bulk load.
crash ==
    /\ pc \in {"pragmas", "load", "commit"}
    /\ \E kept \in CrashLeaves(journal_mode, txn) : db' = db \o kept
    /\ txn' = <<>>
    /\ journal_mode' = "DELETE"
    /\ failure' = "killed"
    /\ aborted' = aborted + 1
    /\ pc' = "crashed"
    /\ UNCHANGED <<dir, readVars, tableExists, si, ti, log, plotVars, run, dbAtStart>>

\* ------------------------------------------------------------ create_helicorder

\* What plt.subplots(nrows=n, ncols=1) hands back as axes: it refuses a grid
\* of no rows, squeezes a grid of one row to the single Axes object, and gives
\* an array of n Axes otherwise.
Subplots(n) == IF n = 0 THEN "error" ELSE IF n = 1 THEN "axes" ELSE "array"

\* The traces plotted on axes[i]: those of the i-th stream by file name.
Panels(strs) ==
    [i \in 1..Len(strs) |->
        {<<Sorted(strs)[i], j>> : j \in 1..Len(StreamOf(strs, Sorted(strs)[i]))}]

create_helicorder ==
    /\ pc = "helicorder"
    /\ LET axes == Subplots(Len(streams))
       IN  IF axes = "error"
           THEN /\ failure' = "ValueError"
                /\ pc' = "raised"
                /\ UNCHANGED <<panels, chartSaved>>
           ELSE IF axes = "axes"
           THEN \* axes[0] on an object that takes no subscript
                /\ failure' = "TypeError"
                /\ pc' = "raised"
                /\ UNCHANGED <<panels, chartSaved>>
           ELSE /\ panels' = Panels(streams)
                /\ chartSaved' = TRUE
                /\ pc' = "map"
                /\ UNCHANGED failure
    /\ UNCHANGED <<dir, readVars, dbVars, looked, station_info, markers, mapSaved,
                   run, aborted, dbAtStart>>

\* ------------------------------------------------------------------- create_map

\* The station codes found in the data.
Stations(strs) ==
    UNION {{strs[k].stream[j].stats.station : j \in 1..Len(strs[k].stream)} :
                k \in 1..Len(strs)}

OtherStations == {"HOA", "SUG"}

\* What client.get_stations does for one station.
LookupOutcomes == {"found", "error", "nomatch"}

\* The whole function: every station is looked up, an exception of a lookup
\* is logged and the loop goes on; a marker is plotted for every station in
\* station_info; min() and max() over the coordinates then set the extent,
\* and raise ValueError when there are none.
create_map ==
    /\ pc = "map"
    /\ LET stations == Stations(streams)
           all == stations \cup OtherStations
       IN  \E outcome \in [all -> LookupOutcomes] :
              LET info == {sta \in all : outcome[sta] = "found"}
              IN  /\ looked' = all
                  /\ station_info' = info
                  /\ markers' = [sta \in info |-> IF sta \in stations THEN "^" ELSE "o"]
                  /\ IF info = {}
                     THEN /\ failure' = "ValueError"
                          /\ pc' = "raised"
                          /\ UNCHANGED mapSaved
                     ELSE /\ mapSaved' = TRUE
                          /\ pc' = "done"
                          /\ UNCHANGED failure
    /\ UNCHANGED <<dir, readVars, dbVars, panels, chartSaved, run, aborted, dbAtStart>>

\* ------------------------------------------------------------------------- main

\* The program is started again on the same directory and database file.
rerun ==
    /\ pc \in {"done", "raised"}
    /\ run < MaxRuns
    /\ run' = run + 1
    /\ dbAtStart' = db
    /\ pc' = "read"
    /\ pos' = 1
    /\ streams' = <<>>
    /\ si' = 1
    /\ ti' = 1
    /\ log' = <<>>
    /\ panels' = <<>>
    /\ chartSaved' = FALSE
    /\ looked' = {}
    /\ station_info' = {}
    /\ markers' = <<>>
    /\ mapSaved' = FALSE
    /\ failure' = "none"
    /\ UNCHANGED <<dir, tableExists, db, txn, journal_mode, aborted>>

Next ==
    \/ read_file
    \/ read_return
    \/ create_table
    \/ set_pragmas
    \/ executemany
    \/ commit
    \/ check_and_close
    \/ storage_error
    \/ crash
    \/ create_helicorder
    \/ create_map
    \/ rerun

Spec == Init /\ [][Next]_vars

\* ===================================================================== claims

\* The bulk load of this run returned (the chart or the map may have failed).
LoadComplete ==
    \/ pc \in {"helicorder", "map", "done"}
    \/ pc = "raised" /\ failure \in {"ValueError", "TypeError"}

\* create_helicorder was called and is over, one way or the other.
HelicorderOver ==
    \/ pc \in {"map", "done"}
    \/ pc = "raised" /\ failure \in {"ValueError", "TypeError"}

RECURSIVE SumNpts(_)
SumNpts(stream) ==
    IF stream = <<>> THEN 0 ELSE stream[1].stats.npts + SumNpts(Tail(stream))

RECURSIVE TotalSamples(_)
TotalSamples(strs) ==
    IF strs = <<>> THEN 0 ELSE SumNpts(strs[1].stream) + TotalSamples(Tail(strs))

\* The sample slots of the streams: stream k, trace j, index i.
SampleSlots ==
    UNION {UNION {{<<k, j, i>> : i \in 1..streams[k].stream[j].stats.npts} :
                  j \in 1..Len(streams[k].stream)} :
           k \in 1..Len(streams)}

\* Row `row` carries what slot `sl` holds: the trace's codes, the instant
\* T0 + i/r and the amplitude at index i.
Carries(row, sl) ==
    LET trace == streams[sl[1]].stream[sl[2]]
    IN  /\ row.network = trace.stats.network
        /\ row.station = trace.stats.station
        /\ row.location = trace.stats.location
        /\ row.channel = trace.stats.channel
        /\ TextToReal(row.timestamp) = trace.stats.starttime + (sl[3] - 1) * trace.stats.delta
        /\ row.amplitude = trace.data[sl[3]]

\* C1: after a complete load into a store that held no rows, there is exactly
\* one row for every sample of every trace of every stream, carrying the
\* trace's codes, the sample's instant and its amplitude, and no other row:
\* the row count is the sum of the sample counts.
C1_OneRowPerSample ==
    (LoadComplete /\ dbAtStart = <<>>) =>
        /\ Len(db) = TotalSamples(streams)
        /\ Len(db) = Cardinality(SampleSlots)
        /\ \A sl \in SampleSlots :
               Cardinality({p \in 1..Len(db) : Carries(db[p], sl)}) = 1
        /\ \A p \in 1..Len(db) : \E sl \in SampleSlots : Carries(db[p], sl)

C1_Witness ==
    /\ LoadComplete
    /\ dbAtStart = <<>>
    /\ Len(db) >= 4
    /\ \E k \in 1..Len(streams) : Len(streams[k].stream) = 2

\* The rows of the traces the log names, as the load builds them on top of
\* the rows the run started with.
RECURSIVE RowsOf(_)
RowsOf(lg) ==
    IF lg = <<>> THEN <<>>
    ELSE LET before == RowsOf(SubSeq(lg, 1, Len(lg) - 1))
             last == lg[Len(lg)]
         IN  before \o SqlData(StreamOf(streams, last.stream)[last.trace],
                               Len(dbAtStart) + Len(before))

\* C2: when the bulk load is stopped between two of its steps, by a storage
\* error or by a crash, the store holds the rows it started with and the
\* complete row sets of the traces processed so far, and no part of a trace.
C2_StoppedLoadLeavesWholeTraces ==
    failure \in {"storage", "killed"} => db = dbAtStart \o RowsOf(log)

\* C3: a complete run leaves the table and every row stored before it as they
\* were and appends one row per sample again; after m complete runs over the
\* same input the store holds m times the sample count, each run's rows being
\* the first run's with new ids.
C3_RerunAppends ==
    /\ Len(dbAtStart) <= Len(db)
    /\ SubSeq(db, 1, Len(dbAtStart)) = dbAtStart
    /\ (LoadComplete /\ aborted = 0) =>
          LET total == TotalSamples(streams)
          IN  /\ tableExists
              /\ Len(db) = run * total
              /\ Len(db) = Len(dbAtStart) + total
              /\ \A p \in 1..Len(db) :
                     /\ db[p].id = p
                     /\ p > total => db[p] = [db[p - total] EXCEPT !.id = p]

C3_Witness ==
    /\ LoadComplete
    /\ aborted = 0
    /\ run = 2
    /\ dbAtStart # <<>>
    /\ Len(db) = 2 * Len(dbAtStart)

\* The readable recordings of the directory, as a set.
Recordings == {dir[q] : q \in {q \in 1..Len(dir) : Recognized(dir[q]) /\ dir[q].decodes}}

\* The one listing of a set of entries that ascends by file name.
Ascending(entries) ==
    CHOOSE ord \in [1..Cardinality(entries) -> entries] :
        \A a, b \in 1..Cardinality(entries) :
            a < b => TextLess(FileName(ord[a]), FileName(ord[b]))

\* The rows a load makes of the entries in the order `ord`, after `last` rows.
RECURSIVE RowsOfTraces(_, _)
RowsOfTraces(stream, last) ==
    IF stream = <<>> THEN <<>>
    ELSE LET before == RowsOfTraces(SubSeq(stream, 1, Len(stream) - 1), last)
         IN  before \o SqlData(stream[Len(stream)], last + Len(before))

RECURSIVE RowsOfEntries(_, _)
RowsOfEntries(ord, last) ==
    IF ord = <<>> THEN <<>>
    ELSE LET before == RowsOfEntries(SubSeq(ord, 1, Len(ord) - 1), last)
         IN  before \o RowsOfTraces(Normalize(Decode(ord[Len(ord)])), last + Len(before))

\* C4: streams are inserted in ascending file-name order whatever order the
\* directory was enumerated in: the traces logged never step back to a smaller
\* file name, and the rows a complete load appends (ids included) are those of
\* the set of recordings taken in ascending name order.
C4_InsertedInNameOrder ==
    /\ \A a, b \in 1..Len(log) : a < b => ~TextLess(log[b].stream, log[a].stream)
    /\ (LoadComplete /\ aborted = 0) =>
           db = dbAtStart \o RowsOfEntries(Ascending(Recordings), Len(dbAtStart))

C4_Witness ==
    /\ LoadComplete
    /\ Len(streams) = 2
    /\ TextLess(streams[2].name, streams[1].name)
    /\ Len(log) >= 2
    /\ db # <<>>

\* SQLite's comparison of two stored timestamps.
StoredLess(a, b) == IF Schema.timestamp = "TEXT" THEN TextLess(a, b) ELSE a < b

\* C5: comparing the stored timestamps of two rows gives the order of their
\* instants.
C5_StoredOrderIsTimeOrder ==
    \A p, q \in 1..Len(db) :
        StoredLess(db[p].timestamp, db[q].timestamp)
            <=> TextToReal(db[p].timestamp) < TextToReal(db[q].timestamp)

\* C6: a recognized file that fails to decode fails the run at that file: no
\* entry is passed over, no mapping is returned, nothing is written to the
\* store and no chart or map is made.
C6_DecodeFailureIsFatal ==
    /\ \A q \in 1..(pos - 1) : Recognized(dir[q]) => dir[q].decodes
    /\ pc \notin {"read", "raised"} => \A q \in 1..Len(dir) : Recognized(dir[q]) => dir[q].decodes
    /\ failure = "decode" =>
           /\ pc = "raised"
           /\ Recognized(dir[pos]) /\ ~dir[pos].decodes
           /\ db = dbAtStart
           /\ txn = <<>>
           /\ log = <<>>
           /\ (run = 1 => ~tableExists)
           /\ ~chartSaved /\ panels = <<>>
           /\ ~mapSaved /\ looked = {} /\ markers = <<>>

C6_Witness ==
    /\ failure = "decode"
    /\ pos = 2
    /\ streams # <<>>

\* C7: whatever the lookups give, create_map raises nothing after the lookup
\* step, has looked up every station, and plots exactly the located ones.
C7_LookupFailuresIsolated ==
    looked # {} =>
        /\ looked = Stations(streams) \cup OtherStations
        /\ DOMAIN markers = station_info
        /\ failure = "none"
        /\ mapSaved

\* C8: with no recognized file in the directory the run makes the table,
\* inserts no row, and the chart over zero streams raises no error.
C8_EmptyDirectoryRuns ==
    ((\A q \in 1..Len(dir) : ~Recognized(dir[q])) /\ HelicorderOver) =>
        /\ tableExists
        /\ db = <<>>
        /\ failure = "none"

\* C9: every trace is normalized exactly once, detrend then taper, before any
\* of its samples is written; only the amplitudes change, the codes, start
\* time, sampling and sample count stay those of the decoded trace.
C9_NormalizedOnceBeforeStore ==
    /\ \A k \in 1..Len(streams) :
          LET decoded == Decode(CHOOSE e \in Recordings : FileName(e) = streams[k].name)
              stream == streams[k].stream
          IN  /\ Len(stream) = Len(decoded)
              /\ \A j \in 1..Len(stream) :
                    /\ stream[j].stats = decoded[j].stats
                    /\ Len(stream[j].data) = Len(decoded[j].data)
                    /\ \A i \in 1..Len(stream[j].data) :
                          /\ stream[j].data[i].raw = decoded[j].data[i].raw
                          /\ stream[j].data[i].ops = <<"detrend", "taper">>
    /\ \A p \in 1..Len(db) : db[p].amplitude.ops = <<"detrend", "taper">>
    /\ \A p \in 1..Len(txn) : txn[p].amplitude.ops = <<"detrend", "taper">>

C9_Witness ==
    /\ db # <<>>
    /\ txn # <<>>
    /\ \E k \in 1..Len(streams) : Len(streams[k].stream) = 2

\* C10: for every k >= 1 streams create_helicorder completes and draws k
\* panels, the i-th holding the traces of the i-th stream by file name and no
\* other.
C10_OnePanelPerStream ==
    (HelicorderOver /\ Len(streams) >= 1) =>
        /\ chartSaved
        /\ Len(panels) = Len(streams)
        /\ \A i \in 1..Len(panels) :
               panels[i] = {<<Sorted(streams)[i], j>> :
                               j \in 1..Len(StreamOf(streams, Sorted(streams)[i]))}

====
